---- MODULE Spec2Model ----
(***************************************************************************)
(* A model of app.py: the two CSV tables, their join, the user x movie     *)
(* rating matrix, the two ranking functions and the two request handlers.  *)
(*                                                                         *)
(* Representation.                                                         *)
(*   - A float cell is NaN (the empty tuple) or a rational <<p, q>>, q > 0.*)
(*     Means are exact rationals; correlations are fixed point with        *)
(*     denominator CorrScale.                                              *)
(*   - A Series / one-column frame is a sequence of records               *)
(*     [label, val] in index order.                                        *)
(*   - Python's None is the string None; titles are strings, ordered as    *)
(*     they appear in AllTitles (the lexicographic order pandas sorts by). *)
(***************************************************************************)
EXTENDS Integers, Sequences, FiniteSets, TLC

\* ------------------------------------------------------------------ bounds
MaxN == 2
MaxSel == 2
CorrScale == 100

\* --------------------------------------------------------------- constants
MinCount == 10
DefaultN == 5

None == "<None>"
NaN == <<>>

IsNaN(x) == x = NaN

AllTitles == <<"A", "B", "C", "D", "Z">>

Rank(t) == CHOOSE i \in 1..Len(AllTitles) : AllTitles[i] = t

\* ----------------------------------------------------------- list helpers
RECURSIVE SumSeq(_)
SumSeq(s) == IF s = <<>> THEN 0 ELSE Head(s) + SumSeq(Tail(s))

Range(s) == {s[i] : i \in 1..Len(s)}

\* The elements of the set S of titles as a sequence in sorted order.
SortedTitles(S) == SelectSeq(AllTitles, LAMBDA t : t \in S)

Abs(x) == IF x < 0 THEN -x ELSE x

RECURSIVE Gcd(_, _)
Gcd(a, b) == IF b = 0 THEN a ELSE Gcd(b, a % b)

Lcm(a, b) == (a * b) \div Gcd(a, b)

RECURSIVE LcmSeq(_)
LcmSeq(s) == IF s = <<>> THEN 1 ELSE Lcm(Head(s), LcmSeq(Tail(s)))

\* The largest k in lo..hi with k * k <= x (lo * lo <= x is given).
RECURSIVE IsqrtIn(_, _, _)
IsqrtIn(x, lo, hi) ==
    IF lo = hi THEN lo
    ELSE LET mid == (lo + hi + 1) \div 2
         IN IF mid * mid <= x THEN IsqrtIn(x, mid, hi) ELSE IsqrtIn(x, lo, mid - 1)

Isqrt(x) == IsqrtIn(x, 0, 46340)

\* ------------------------------------------------------------- float cells
\* a > b for two cells that are not NaN
GtVal(a, b) == a[1] * b[2] > b[1] * a[2]

\* --------------------------------------------------------------- CSV input
\* The text of a CSV integer cell; read_csv parses it and astype(str) prints it.
IdStr == <<"1", "2", "3", "4">>

astype_str(i) == IdStr[i]

\* pd.to_numeric(..., errors='coerce') of one cell
to_numeric(raw) ==
    CASE raw = "1" -> <<1, 1>>
      [] raw = "2" -> <<2, 1>>
      [] raw = "3" -> <<3, 1>>
      [] raw = "4" -> <<4, 1>>
      [] raw = "5" -> <<5, 1>>
      [] OTHER -> NaN

\* movies_100k.csv: three catalogues.  In the first movie 4 is missing, in the
\* second movies 3 and 4 carry the same title, in the third every movie has
\* its own title.
MovieFiles ==
    { << [movie_id |-> 1, movie_title |-> "A"], [movie_id |-> 2, movie_title |-> "B"],
         [movie_id |-> 3, movie_title |-> "C"] >>,
      << [movie_id |-> 1, movie_title |-> "A"], [movie_id |-> 2, movie_title |-> "B"],
         [movie_id |-> 3, movie_title |-> "C"], [movie_id |-> 4, movie_title |-> "C"] >>,
      << [movie_id |-> 1, movie_title |-> "A"], [movie_id |-> 2, movie_title |-> "B"],
         [movie_id |-> 3, movie_title |-> "C"], [movie_id |-> 4, movie_title |-> "D"] >> }

\* The rating user u gives under a rating pattern, as the text of the CSV cell.
RatingText(pat, u) ==
    LET digit == <<"1", "2", "3", "4", "5">>
    IN CASE pat = "up" -> digit[((u - 1) % 5) + 1]
         [] pat = "down" -> digit[5 - ((u - 1) % 5)]
         [] pat = "flat" -> "3"
         [] OTHER -> IF u = 1 THEN "bad" ELSE digit[((u * u) % 5) + 1]

\* A profile <<k, pat>>: users 1..k rate the movie, in pattern pat.
Profiles ==
    { <<0, "up">>, <<1, "noisy">>, <<2, "up">>, <<MinCount, "up">>,
      <<MinCount + 1, "down">>, <<MinCount + 1, "flat">>, <<MinCount + 1, "noisy">> }

\* The profiles of movies 2, 3 and 4.
SecondProfiles ==
    { <<0, "up">>, <<MinCount + 1, "flat">>, <<MinCount + 2, "noisy">> }

ThirdProfiles == { <<MinCount + 1, "up">> }

LastProfiles == { <<MinCount + 1, "noisy">> }

RatingRows(m, prof) ==
    [u \in 1..prof[1] |-> [userId |-> u, movieId |-> m, rating |-> RatingText(prof[2], u)]]

\* ratings_100k.csv: movie m is rated as its profile says.
RatingFiles ==
    { RatingRows(1, p1) \o RatingRows(2, p2) \o RatingRows(3, p3) \o RatingRows(4, p4) :
        p1 \in Profiles, p2 \in SecondProfiles, p3 \in ThirdProfiles, p4 \in LastProfiles }

\* ------------------------------------------------------------------ tables
\* movies after the rename and astype(str)
LoadMovies(file) ==
    [i \in 1..Len(file) |->
        [movieId |-> astype_str(file[i].movie_id), title |-> file[i].movie_title]]

\* ratings after astype(str)
LoadRatings(file) ==
    [i \in 1..Len(file) |->
        [userId |-> file[i].userId, movieId |-> astype_str(file[i].movieId),
         rating |-> file[i].rating]]

\* pd.merge(ratings, movies, on='movieId'): the inner join, in the order of ratings
RECURSIVE merge(_, _)
merge(rs, ms) ==
    IF rs = <<>> THEN <<>>
    ELSE LET r == Head(rs)
             hit == SelectSeq(ms, LAMBDA m : m.movieId = r.movieId)
         IN [j \in 1..Len(hit) |->
                [userId |-> r.userId, movieId |-> r.movieId, rating |-> r.rating,
                 title |-> hit[j].title]]
            \o merge(Tail(rs), ms)

\* data['rating'] = pd.to_numeric(data['rating'], errors='coerce')
CoerceRatings(d) == [i \in 1..Len(d) |-> [d[i] EXCEPT !.rating = to_numeric(d[i].rating)]]

LoadData(rs, ms) == CoerceRatings(merge(rs, ms))

\* every row counted, a NaN rating as 0
NumericRatings_all(rows) ==
    [i \in 1..Len(rows) |-> IF IsNaN(rows[i].rating) THEN 0 ELSE rows[i].rating[1]]

\* The ratings of rows that are not NaN, as integers: what count and mean see.
NumericRatings(rows) ==
    LET valid == SelectSeq(rows, LAMBDA r : ~IsNaN(r.rating))
    IN [i \in 1..Len(valid) |-> valid[i].rating[1]]

\* The mean of a list of integers, NaN for the empty list.
MeanOf(xs) == IF xs = <<>> THEN NaN ELSE <<SumSeq(xs), Len(xs)>>

\* The positive integers of the set S in increasing order.
SortedInts(S) ==
    IF S = {} THEN <<>>
    ELSE LET top == CHOOSE x \in S : \A y \in S : y <= x
         IN SelectSeq([u \in 1..top |-> u], LAMBDA u : u \in S)

\* data.pivot_table(index='userId', columns='title', values='rating'): the mean
\* of each (userId, title) group; a group without a rating is dropped, and with
\* it a user or a title that has no other group.  col[t][i] is the cell of
\* user index[i] and title t.
pivot_table(d) ==
    LET users == {d[i].userId : i \in 1..Len(d)}
        titles == {d[i].title : i \in 1..Len(d)}
        agged == [k \in users \X titles |->
                    MeanOf(NumericRatings(
                        SelectSeq(d, LAMBDA r : r.userId = k[1] /\ r.title = k[2])))]
        index == SortedInts({u \in users : \E t \in titles : ~IsNaN(agged[<<u, t>>])})
        columns == {t \in titles : \E u \in users : ~IsNaN(agged[<<u, t>>])}
    IN [index |-> index, columns |-> SortedTitles(columns),
        col |-> [t \in columns |-> [i \in 1..Len(index) |-> agged[<<index[i], t>>]]]]

\* ------------------------------------------------------------------ series
Labels(s) == [i \in 1..Len(s) |-> s[i].label]

ValueAt(s, t) == (CHOOSE i \in 1..Len(s) : s[i].label = t)

\* Series.sort_values(ascending=False): values in descending order, NaN last
\* and in index order.  kind='quicksort' is not a stable sort, so the order of
\* equal values is the build's: ties is "kept" (index order) or "reversed".
sort_values(s, ties) ==
    LET Before(i, j) ==
            LET a == s[i].val
                b == s[j].val
            IN CASE IsNaN(a) -> IsNaN(b) /\ i < j
                 [] IsNaN(b) -> TRUE
                 [] GtVal(a, b) -> TRUE
                 [] GtVal(b, a) -> FALSE
                 [] OTHER -> IF ties = "kept" THEN i < j ELSE j < i
        Place(i) == 1 + Cardinality({j \in 1..Len(s) : Before(j, i)})
    IN [k \in 1..Len(s) |-> s[CHOOSE i \in 1..Len(s) : Place(i) = k]]

\* .head(n), that is .iloc[:n]
head(s, n) ==
    LET stop == IF n >= 0 THEN (IF n < Len(s) THEN n ELSE Len(s))
                ELSE (IF Len(s) + n > 0 THEN Len(s) + n ELSE 0)
    IN SubSeq(s, 1, stop)

\* drop that removes nothing
drop_nothing(s, labels) == s

\* Series.drop(labels=..., errors='ignore')
drop(s, labels) == SelectSeq(s, LAMBDA e : e.label \notin Range(labels))

\* ------------------------------------------------------- popularity ranking
\* data.groupby('title')['rating'].agg(['count', 'mean'])
rating_stats(d) ==
    LET titles == SortedTitles({d[i].title : i \in 1..Len(d)})
    IN [k \in 1..Len(titles) |->
          LET xs == NumericRatings(SelectSeq(d, LAMBDA r : r.title = titles[k]))
          IN [label |-> titles[k], count |-> Len(xs), val |-> MeanOf(xs)]]

\* rating_stats[rating_stats['count'] > 10]
popular_movies(d) == SelectSeq(rating_stats(d), LAMBDA r : r.count > MinCount)

\* the ranking without the sort by mean
get_top_rated_movies_unsorted(d, ties, n) == Labels(head(popular_movies(d), n))

get_top_rated_movies(d, ties, n) == Labels(head(sort_values(popular_movies(d), ties), n))

\* ------------------------------------------------------------- correlation
\* Series.corr of two columns of the matrix: Pearson's r over the users who
\* rated both, NaN without two such users or without variance.  Each column is
\* scaled to integers first (r does not change under scaling); the result is
\* rounded towards zero to a multiple of 1 / CorrScale.
corr(m, x, y) ==
    LET cx == m.col[x]
        cy == m.col[y]
        pairs == SelectSeq([i \in 1..Len(m.index) |-> <<cx[i], cy[i]>>],
                           LAMBDA p : ~IsNaN(p[1]) /\ ~IsNaN(p[2]))
        n == Len(pairs)
        kx == LcmSeq([i \in 1..n |-> pairs[i][1][2]])
        ky == LcmSeq([i \in 1..n |-> pairs[i][2][2]])
        xs == [i \in 1..n |-> pairs[i][1][1] * (kx \div pairs[i][1][2])]
        ys == [i \in 1..n |-> pairs[i][2][1] * (ky \div pairs[i][2][2])]
        sx == SumSeq(xs)
        sy == SumSeq(ys)
        vx == n * SumSeq([i \in 1..n |-> xs[i] * xs[i]]) - sx * sx
        vy == n * SumSeq([i \in 1..n |-> ys[i] * ys[i]]) - sy * sy
        cxy == n * SumSeq([i \in 1..n |-> xs[i] * ys[i]]) - sx * sy
        r == (CorrScale * Abs(cxy)) \div Isqrt(vx * vy)
        clipped == IF r > CorrScale THEN CorrScale ELSE r
    IN IF n = 0 \/ vx = 0 \/ vy = 0 THEN NaN
       ELSE <<(IF cxy < 0 THEN -clipped ELSE clipped), CorrScale>>

\* user_movie_rating.corrwith(user_movie_rating[movie_title])
corrwith(m, movie_title) ==
    [k \in 1..Len(m.columns) |->
        [label |-> m.columns[k], val |-> corr(m, m.columns[k], movie_title)]]

\* add without fill_value: a value missing on either side gives NaN
add_nofill(a, b) ==
    LET idx == SortedTitles(Range(Labels(a)) \cup Range(Labels(b)))
        Side(s, t) == IF t \in Range(Labels(s)) THEN s[ValueAt(s, t)].val ELSE NaN
        Sum(u, v) == IF IsNaN(u) \/ IsNaN(v) THEN NaN ELSE <<u[1] + v[1], CorrScale>>
    IN [k \in 1..Len(idx) |-> [label |-> idx[k], val |-> Sum(Side(a, idx[k]), Side(b, idx[k]))]]

\* a.add(b, fill_value=0): over the union of the two indexes; a value missing
\* on one side counts as 0, one missing on both sides stays NaN.
add(a, b) ==
    LET idx == SortedTitles(Range(Labels(a)) \cup Range(Labels(b)))
        Side(s, t) == IF t \in Range(Labels(s)) THEN s[ValueAt(s, t)].val ELSE NaN
        Sum(u, v) ==
            CASE IsNaN(u) /\ IsNaN(v) -> NaN
              [] IsNaN(u) -> v
              [] IsNaN(v) -> u
              [] OTHER -> <<u[1] + v[1], CorrScale>>
    IN [k \in 1..Len(idx) |-> [label |-> idx[k], val |-> Sum(Side(a, idx[k]), Side(b, idx[k]))]]

\* The loop of get_recommendations: the scores after the selected titles.
RECURSIVE similar_scores(_, _, _)

\* the loop with break in place of continue
similar_scores_break(m, acc, selected_movies) ==
    IF selected_movies = <<>> THEN acc
    ELSE LET movie_title == Head(selected_movies)
         IN IF movie_title \notin Range(m.columns)
            THEN acc
            ELSE similar_scores(m, add(acc, corrwith(m, movie_title)), Tail(selected_movies))

similar_scores(m, acc, selected_movies) ==
    IF selected_movies = <<>> THEN acc
    ELSE LET movie_title == Head(selected_movies)
         IN IF movie_title \notin Range(m.columns)
            THEN similar_scores(m, acc, Tail(selected_movies))
            ELSE similar_scores(m, add(acc, corrwith(m, movie_title)), Tail(selected_movies))

\* the cut to n before the exclusion of the selected titles
get_recommendations_cut_first(m, ties, selected_movies, n) ==
    LET recommendations == sort_values(similar_scores(m, <<>>, selected_movies), ties)
    IN Labels(drop(head(recommendations, n), selected_movies))

get_recommendations(m, ties, selected_movies, n) ==
    LET recommendations == sort_values(similar_scores(m, <<>>, selected_movies), ties)
    IN Labels(head(drop(recommendations, selected_movies), n))

\* ------------------------------------------------------------------- state
VARIABLES movies, ratings, data, user_movie_rating, sort_ties,
          op, form, selected, arg_n, result_movies, title_text

tables == <<movies, ratings, data, user_movie_rating>>

vars == <<movies, ratings, data, user_movie_rating, sort_ties,
          op, form, selected, arg_n, result_movies, title_text>>

RankingText == "no selection: the top rated movies"
RecommendText == "recommended movies, top 5"

\* What a form field can hold: absent, empty, a title of the catalogue, or a
\* title no movie has.
FormValues == {None, "", "A", "B"}

Forms == FormValues \X FormValues \X FormValues

\* The lists get_recommendations is called with.
SelTitles == {"A", "B", "Z"}

RECURSIVE SeqsUpTo(_, _)
SeqsUpTo(S, k) ==
    IF k = 0 THEN {<<>>}
    ELSE LET shorter == SeqsUpTo(S, k - 1)
         IN shorter \cup {Append(s, x) : s \in {q \in shorter : Len(q) = k - 1}, x \in S}

Selections == SeqsUpTo(SelTitles, MaxSel)

Counts == (-1)..MaxN

Init ==
    /\ \E mf \in MovieFiles, rf \in RatingFiles :
        /\ movies = LoadMovies(mf)
        /\ ratings = LoadRatings(rf)
    /\ data = LoadData(ratings, movies)
    /\ user_movie_rating = pivot_table(data)
    /\ sort_ties \in {"kept", "reversed"}
    /\ op = "start"
    /\ form = <<None, None, None>>
    /\ selected = <<>>
    /\ arg_n = DefaultN
    /\ result_movies = <<>>
    /\ title_text = ""

\* GET or POST /
index ==
    /\ op = "start"
    /\ op' = "index"
    /\ form' = <<None, None, None>>
    /\ selected' = <<>>
    /\ arg_n' = DefaultN
    /\ result_movies' = SortedTitles({movies[i].title : i \in 1..Len(movies)})
    /\ title_text' = ""
    /\ UNCHANGED <<tables, sort_ties>>

\* the filter "is not None" in place of truthiness
Truthy_not_none(f) == SelectSeq(f, LAMBDA m : m # None)

\* [m for m in [movie1, movie2, movie3] if m]
Truthy(f) == SelectSeq(f, LAMBDA m : m # None /\ m # "")

\* /recommend with the selected columns dropped from the matrix itself
recommend_inplace ==
    \E f \in Forms :
        /\ op = "start"
        /\ op' = "recommend"
        /\ form' = f
        /\ selected' = Truthy(f)
        /\ arg_n' = DefaultN
        /\ IF Truthy(f) = <<>>
           THEN /\ result_movies' = get_top_rated_movies(data, sort_ties, DefaultN)
                /\ title_text' = RankingText
           ELSE /\ result_movies' =
                      get_recommendations(user_movie_rating, sort_ties, Truthy(f), DefaultN)
                /\ title_text' = RecommendText
        /\ user_movie_rating' =
              [user_movie_rating EXCEPT
                 !.columns = SelectSeq(@, LAMBDA t : t \notin Range(Truthy(f)))]
        /\ UNCHANGED <<movies, ratings, data, sort_ties>>

\* /recommend that falls back to the ranking when nothing is recommended
recommend_fallback ==
    \E f \in Forms :
        /\ op = "start"
        /\ op' = "recommend"
        /\ form' = f
        /\ selected' = Truthy(f)
        /\ arg_n' = DefaultN
        /\ IF get_recommendations(user_movie_rating, sort_ties, Truthy(f), DefaultN) = <<>>
           THEN /\ result_movies' = get_top_rated_movies(data, sort_ties, DefaultN)
                /\ title_text' = RankingText
           ELSE /\ result_movies' =
                      get_recommendations(user_movie_rating, sort_ties, Truthy(f), DefaultN)
                /\ title_text' = RecommendText
        /\ UNCHANGED <<tables, sort_ties>>

\* POST /recommend
recommend ==
    \E f \in Forms :
        /\ op = "start"
        /\ op' = "recommend"
        /\ form' = f
        /\ selected' = Truthy(f)
        /\ arg_n' = DefaultN
        /\ IF Truthy(f) = <<>>
           THEN /\ result_movies' = get_top_rated_movies(data, sort_ties, DefaultN)
                /\ title_text' = RankingText
           ELSE /\ result_movies' =
                      get_recommendations(user_movie_rating, sort_ties, Truthy(f), DefaultN)
                /\ title_text' = RecommendText
        /\ UNCHANGED <<tables, sort_ties>>

\* A call get_top_rated_movies(n)
CallTopRated ==
    \E n \in Counts :
        /\ op = "start"
        /\ op' = "get_top_rated_movies"
        /\ form' = <<None, None, None>>
        /\ selected' = <<>>
        /\ arg_n' = n
        /\ result_movies' = get_top_rated_movies(data, sort_ties, n)
        /\ title_text' = ""
        /\ UNCHANGED <<tables, sort_ties>>

\* A call get_recommendations(selected_movies, n)
CallRecommendations ==
    \E s \in Selections, n \in Counts :
        /\ op = "start"
        /\ op' = "get_recommendations"
        /\ form' = <<None, None, None>>
        /\ selected' = s
        /\ arg_n' = n
        /\ result_movies' = get_recommendations(user_movie_rating, sort_ties, s, n)
        /\ title_text' = ""
        /\ UNCHANGED <<tables, sort_ties>>

\* The response leaves the server, which waits for the next request.
deliver ==
    /\ op # "start"
    /\ op' = "start"
    /\ form' = <<None, None, None>>
    /\ selected' = <<>>
    /\ arg_n' = DefaultN
    /\ result_movies' = <<>>
    /\ title_text' = ""
    /\ UNCHANGED <<tables, sort_ties>>

\* The web service: the two routes.
Next == index \/ recommend \/ deliver

Spec == Init /\ [][Next]_vars

\* get_top_rated_movies applied to every n of Counts.
NextTop == CallTopRated \/ deliver

SpecTop == Init /\ [][NextTop]_vars

\* get_recommendations applied to every list of Selections and every n of Counts.
NextRecs == CallRecommendations \/ deliver

SpecRecs == Init /\ [][NextRecs]_vars

\* ================================================================== claims
\* The state holds the result of get_recommendations(selected, arg_n).
IsRecsCall == op = "get_recommendations" \/ (op = "recommend" /\ selected # <<>>)

\* The state holds the result of get_top_rated_movies(arg_n).
IsTopCall == op = "get_top_rated_movies" \/ (op = "recommend" /\ selected = <<>>)

Columns == Range(user_movie_rating.columns)

IsDistinct(s) == \A i, j \in 1..Len(s) : i # j => s[i] # s[j]

RECURSIVE SumOver(_, _)
SumOver(I, f) ==
    IF I = {} THEN 0
    ELSE LET i == CHOOSE x \in I : TRUE IN f[i] + SumOver(I \ {i}, f)

\* The rows of data that carry a rating of title t.
RatedRows(t) == {i \in 1..Len(data) : data[i].title = t /\ data[i].rating # NaN}

RatingCount(t) == Cardinality(RatedRows(t))

RatingTotal(t) == SumOver(RatedRows(t), [i \in 1..Len(data) |->
                              IF data[i].rating = NaN THEN 0 ELSE data[i].rating[1]])

DataTitles == {data[i].title : i \in 1..Len(data)}

\* mean(t) >= mean(u), for titles with a rating
MeanGeq(t, u) == RatingTotal(t) * RatingCount(u) >= RatingTotal(u) * RatingCount(t)

\* ------------------------------------------------------------------- C1
\* The form fields that are present and not empty.
PresentFields == {i \in 1..3 : form[i] # None /\ form[i] # ""}

\* C1: on POST /recommend the selection is the present, non-empty fields among
\* movie1, movie2, movie3 in that order; an empty selection shows the popularity
\* ranking under the ranking heading, any other selection shows
\* get_recommendations(selection) under the recommendation heading.
C1_SelectionAndBranch ==
    op = "recommend" =>
        /\ Len(selected) = Cardinality(PresentFields)
        /\ \A i \in PresentFields :
              selected[Cardinality({j \in PresentFields : j <= i})] = form[i]
        /\ IF PresentFields = {}
           THEN /\ result_movies = get_top_rated_movies(data, sort_ties, DefaultN)
                /\ title_text = RankingText
           ELSE /\ result_movies =
                      get_recommendations(user_movie_rating, sort_ties, selected, DefaultN)
                /\ title_text = RecommendText
                /\ title_text # RankingText

C1_Witness ==
    /\ op = "recommend"
    /\ form = <<"", "B", "A">>
    /\ result_movies # <<>>
    /\ result_movies # get_top_rated_movies(data, sort_ties, DefaultN)

\* ------------------------------------------------------------------- C2
\* C2: the ranking is restricted to the titles with 10 or more ratings: with n
\* at least the number of titles, a title is returned exactly when it has 10
\* or more numeric ratings in the joined data.
C2_TenOrMoreEligible ==
    (IsTopCall /\ arg_n >= Cardinality(DataTitles)) =>
        \A t \in DataTitles : (t \in Range(result_movies)) <=> (RatingCount(t) >= MinCount)

\* ------------------------------------------------------------------- C3
\* C3: no title of selected_movies is in the list get_recommendations returns,
\* for every n, whether the title is a column of the matrix or not.
C3_SelectedExcluded ==
    IsRecsCall => \A k \in 1..Len(result_movies) : result_movies[k] \notin Range(selected)

C3_Witness ==
    /\ op = "get_recommendations"
    /\ selected = <<"A", "Z">>
    /\ "A" \in Columns
    /\ arg_n = -1
    /\ result_movies # <<>>

\* ------------------------------------------------------------------- C4
\* The total scores for the selection of the state, as the loop leaves them.
Scores == similar_scores(user_movie_rating, <<>>, selected)

\* The score of title t in the series s (NaN: undefined).
ScoreIn(s, t) == s[ValueAt(s, t)].val

\* a is a strictly higher score than b
Higher(a, b) == ~IsNaN(a) /\ (IsNaN(b) \/ GtVal(a, b))

Candidates ==
    IF \E k \in 1..Len(selected) : selected[k] \in Columns
    THEN Columns \ Range(selected) ELSE {}

\* C4: get_recommendations returns at most n titles (n a count, n >= 0), all
\* distinct, in order of non-increasing score with the undefined scores last;
\* the selected titles are excluded before the cut, so the list has n titles
\* whenever n candidates exist, and no candidate left out has a strictly
\* higher score than a returned title.
C4_TopNByScore ==
    IsRecsCall =>
        LET s == Scores
            score == [t \in Candidates |-> ScoreIn(s, t)]
        IN /\ arg_n >= 0 => Len(result_movies) <= arg_n
           /\ arg_n >= 0 =>
                 Len(result_movies) =
                     (IF arg_n < Cardinality(Candidates) THEN arg_n
                      ELSE Cardinality(Candidates))
           /\ IsDistinct(result_movies)
           /\ Range(result_movies) \subseteq Candidates
           /\ \A i, j \in 1..Len(result_movies) :
                 i < j => ~Higher(score[result_movies[j]], score[result_movies[i]])
           /\ \A t \in Candidates \ Range(result_movies) :
                 \A k \in 1..Len(result_movies) : ~Higher(score[t], score[result_movies[k]])

C4_Witness ==
    /\ op = "get_recommendations"
    /\ arg_n = 1
    /\ Len(result_movies) = 1
    /\ LET s == Scores
       IN /\ \E t \in Candidates \ Range(result_movies) :
                Higher(ScoreIn(s, result_movies[1]), ScoreIn(s, t))
          /\ \E k \in 1..Len(selected) :
                /\ selected[k] \in Columns
                /\ Higher(ScoreIn(s, selected[k]), ScoreIn(s, result_movies[1]))

\* ------------------------------------------------------------------- C5
\* A title passes the rating-count filter of the code.
Eligible(t) == RatingCount(t) > MinCount

\* C5: get_top_rated_movies(n) returns at most n titles (n a count, n >= 0),
\* all distinct and eligible, in order of non-increasing mean rating, and every
\* eligible title left out has a mean no higher than that of any returned title.
C5_TopNByMean ==
    IsTopCall =>
        /\ arg_n >= 0 => Len(result_movies) <= arg_n
        /\ IsDistinct(result_movies)
        /\ \A k \in 1..Len(result_movies) :
              result_movies[k] \in DataTitles /\ Eligible(result_movies[k])
        /\ \A i, j \in 1..Len(result_movies) :
              i < j => MeanGeq(result_movies[i], result_movies[j])
        /\ \A t \in {u \in DataTitles : Eligible(u)} \ Range(result_movies) :
              \A k \in 1..Len(result_movies) : MeanGeq(result_movies[k], t)

C5_Witness ==
    /\ op = "get_top_rated_movies"
    /\ arg_n = 1
    /\ Len(result_movies) = 1
    /\ \E t \in DataTitles :
          /\ Eligible(t)
          /\ t # result_movies[1]
          /\ ~MeanGeq(t, result_movies[1])
          /\ Rank(t) < Rank(result_movies[1])

\* ------------------------------------------------------------------- C6
\* The correlations of title t with the selected titles that are columns, one
\* for each occurrence.
Contributions(t) ==
    LET known == SelectSeq(selected, LAMBDA x : x \in Columns)
    IN [k \in 1..Len(known) |-> corr(user_movie_rating, t, known[k])]

DefinedSum(cs) ==
    LET I == {k \in 1..Len(cs) : ~IsNaN(cs[k])}
    IN IF I = {} THEN NaN
       ELSE <<SumOver(I, [k \in 1..Len(cs) |-> IF IsNaN(cs[k]) THEN 0 ELSE cs[k][1]]),
              CorrScale>>

\* C6: the total score of a title is the sum of its correlations with the
\* selected titles that are columns, once per occurrence, an undefined
\* correlation counting as 0, and is undefined only when all of them are.
C6_ScoreIsSum ==
    IsRecsCall =>
        LET s == Scores
        IN IF \A k \in 1..Len(selected) : selected[k] \notin Columns
           THEN s = <<>>
           ELSE /\ Labels(s) = user_movie_rating.columns
                /\ \A i \in 1..Len(s) : s[i].val = DefinedSum(Contributions(s[i].label))

C6_Witness ==
    /\ IsRecsCall
    /\ \E t \in Columns \ Range(selected) :
          LET cs == Contributions(t)
          IN /\ Len(cs) = 2
             /\ IsNaN(cs[1]) # IsNaN(cs[2])
             /\ ~IsNaN(ScoreIn(Scores, t))
             /\ t \in Range(result_movies)

\* ------------------------------------------------------------------- C7
\* C7: selected titles that are not columns of the matrix are ignored:
\* get_recommendations returns what it returns for the selection without them.
C7_UnknownIgnored ==
    IsRecsCall =>
        result_movies =
            get_recommendations(user_movie_rating, sort_ties,
                                SelectSeq(selected, LAMBDA x : x \in Columns), arg_n)

C7_Witness ==
    /\ op = "get_recommendations"
    /\ Len(selected) = 2
    /\ selected[1] \notin Columns
    /\ selected[2] \in Columns
    /\ Len(result_movies) = 2

\* ------------------------------------------------------------------- C8
NumericTexts == {"1", "2", "3", "4", "5"}

MovieIdsKnown == {movies[j].movieId : j \in 1..Len(movies)}

\* C8: after the load, a rating that is not a number is NaN in the joined data;
\* the count and the mean of a title are those of its numeric ratings alone, and
\* the matrix is that of the joined data without the NaN rows; no joined row
\* has a movieId that the movie metadata lacks.
C8_CoercionAndJoin ==
    op = "start" =>
        LET joined == merge(ratings, movies)
            stats == rating_stats(data)
        IN /\ Len(data) = Len(joined)
           /\ \A i \in 1..Len(data) :
                 (joined[i].rating \notin NumericTexts) <=> (data[i].rating = NaN)
           /\ \A k \in 1..Len(stats) :
                 /\ stats[k].count = RatingCount(stats[k].label)
                 /\ stats[k].val =
                       (IF RatingCount(stats[k].label) = 0 THEN NaN
                        ELSE <<RatingTotal(stats[k].label), RatingCount(stats[k].label)>>)
           /\ user_movie_rating = pivot_table(SelectSeq(data, LAMBDA r : r.rating # NaN))
           /\ \A i \in 1..Len(data) : data[i].movieId \in MovieIdsKnown
           /\ Len(data) =
                 SumSeq([i \in 1..Len(ratings) |->
                     Cardinality({j \in 1..Len(movies) : movies[j].movieId = ratings[i].movieId})])

C8_Witness ==
    /\ op = "start"
    /\ \E i \in 1..Len(ratings) : ratings[i].movieId \notin MovieIdsKnown
    /\ \E i \in 1..Len(data) :
          /\ data[i].rating = NaN
          /\ RatingCount(data[i].title) > MinCount
    /\ \E i \in 1..Len(data) : data[i].rating = NaN /\ data[i].title \notin Columns

\* ------------------------------------------------------------------- C9
\* What /recommend answers to a form over given tables.
RecommendResponse(f, d, m, ties) ==
    IF \A i \in 1..3 : f[i] = None \/ f[i] = ""
    THEN <<get_top_rated_movies(d, ties, DefaultN), RankingText>>
    ELSE <<get_recommendations(m, ties, SelectSeq(f, LAMBDA x : x # None /\ x # ""), DefaultN),
           RecommendText>>

\* C9: no request changes a loaded table, and the answer of /recommend is the
\* one its form fields determine over the tables as they were loaded.
C9_Stateless ==
    [][/\ movies' = movies
       /\ ratings' = ratings
       /\ data' = data
       /\ user_movie_rating' = user_movie_rating
       /\ op' = "recommend" =>
             <<result_movies', title_text'>> =
                 RecommendResponse(form', data, user_movie_rating, sort_ties)]_vars

C9_Witness ==
    /\ op = "recommend"
    /\ selected = <<"A", "B">>
    /\ Len(result_movies) = 2

\* ------------------------------------------------------------------ C10
\* C10: a non-empty selection without any column of the matrix gives the empty
\* list, shown by /recommend under the recommendation heading and not replaced
\* by the popularity ranking.
C10_NoKnownTitle ==
    (IsRecsCall /\ selected # <<>> /\ \A k \in 1..Len(selected) : selected[k] \notin Columns) =>
        /\ result_movies = <<>>
        /\ op = "recommend" => title_text = RecommendText /\ title_text # RankingText

C10_Witness ==
    /\ op = "recommend"
    /\ selected # <<>>
    /\ \A k \in 1..Len(selected) : selected[k] \notin Columns
    /\ get_top_rated_movies(data, sort_ties, DefaultN) # <<>>
====
